---- MODULE Spec2Model ----
(***************************************************************************)
(* Model of the video-to-audio conversion service (web_app.py) and of the  *)
(* converter it calls (mp4_2_mp3.py): the job registry `jobs`, the         *)
(* background worker `_process_job` with one step per `_update_job` call,  *)
(* the progress bridge JobProgressLogger.callback and the /convert and     *)
(* /download request handlers.  A status poll reads the registry under     *)
(* the lock, so every state of `jobs` is a state a poll can observe.       *)
(***************************************************************************)
EXTENDS Integers, Sequences, FiniteSets, TLC

\* ------------------------------------------------------------------ bounds
MaxJobs == 1        \* /convert requests accepted, one worker thread each
MaxUploads == 3     \* length of the longest upload list
MaxDownloads == 2   \* /download requests, each served by its own thread

\* ------------------------------------------------------- optional values
\* Python's None is the empty sequence, a present value x is <<x>>.
None == <<>>
Some(x) == <<x>>

Max(a, b) == IF a >= b THEN a ELSE b
Min(a, b) == IF a <= b THEN a ELSE b

\* ------------------------------------------------------------------ paths
\* A path is the sequence of its parts; a part is its stem and its suffix.
Part(stem, suffix) == [stem |-> stem, suffix |-> suffix]

VIDEO_EXTENSIONS == {".mp4", ".mkv", ".avi", ".mov", ".flv", ".wmv", ".m4v"}

\* str.lower() on the suffixes that occur in the uploads
Lower(s) == CASE s = ".MKV" -> ".mkv"
              [] s = ".MP4" -> ".mp4"
              [] OTHER -> s

ALLOWED_SUFFIXES == {Lower(s) : s \in VIDEO_EXTENSIONS}

Suffix(path) == IF path = <<>> THEN "" ELSE path[Len(path)].suffix

with_suffix(path, suffix) ==
    [path EXCEPT ![Len(path)] = Part(path[Len(path)].stem, suffix)]

IsDotPart(p) == p.suffix = "" /\ p.stem \in {"", ".", ".."}

_sanitize_relative_path(filename) ==
    LET safe_parts == SelectSeq(filename, LAMBDA p : ~IsDotPart(p))
    IN  IF safe_parts = <<>>
        THEN IF filename = <<>> \/ filename[Len(filename)].stem = ""
             THEN <<Part("uploaded_file", "")>>
             ELSE <<filename[Len(filename)]>>
        ELSE safe_parts

IsSupported(path) == Lower(Suffix(path)) \in ALLOWED_SUFFIXES

_filter_supported(files) == SelectSeq(files, IsSupported)

\* The filenames of the upload lists, and their posix order for sorted().
UploadNames ==
    << <<Part("notes", ".txt")>>,
       <<Part("a", ".mp4")>>,
       <<Part("..", ""), Part("a", ".MKV")>>,
       <<Part("b", ".mov")>>,
       <<Part("README", "")>> >>

PosixOrder ==
    << <<Part("README", "")>>,
       <<Part("a", ".MKV")>>,
       <<Part("a", ".mp4")>>,
       <<Part("b", ".mov")>>,
       <<Part("notes", ".txt")>> >>

Uploads == {SubSeq(UploadNames, 1, n) : n \in 2..Min(MaxUploads, Len(UploadNames))}

RECURSIVE SortedFrom(_, _)
SortedFrom(paths, i) ==
    IF i > Len(PosixOrder) THEN <<>>
    ELSE SelectSeq(paths, LAMBDA p : p = PosixOrder[i]) \o SortedFrom(paths, i + 1)

sorted(paths) == SortedFrom(paths, 1)

RECURSIVE MapSanitize(_)
MapSanitize(uploads) ==
    IF uploads = <<>> THEN <<>>
    ELSE IF Head(uploads) = <<>>
         THEN MapSanitize(Tail(uploads))
         ELSE <<_sanitize_relative_path(Head(uploads))>> \o MapSanitize(Tail(uploads))

InSeq(x, s) == \E i \in 1..Len(s) : s[i] = x

\* ------------------------------------------------ JobProgressLogger.callback
\* A progress bar of the logger: every field is None or Some(value); a
\* fraction is a rational <<numerator, denominator>>, <<0, 0>> being NaN.
Bar(fraction, total, n, index, value, current) ==
    [fraction |-> fraction, total |-> total, n |-> n,
     index |-> index, value |-> value, current |-> current]

\* self.bars when the callback runs: each bar is None (missing or empty) or Some(bar)
Bars(chunk, chunks, t) == [chunk |-> chunk, chunks |-> chunks, t |-> t]

Truthy(x) == x # None /\ x[1] # 0

SelectBar(bars) ==
    IF bars.chunk # None THEN bars.chunk
    ELSE IF bars.chunks # None THEN bars.chunks
    ELSE bars.t

BarTotal(bar) ==
    IF Truthy(bar.total) THEN bar.total[1]
    ELSE IF Truthy(bar.n) THEN bar.n[1]
    ELSE 0

BarCompleted(bar) ==
    IF bar.index # None THEN bar.index
    ELSE IF bar.value # None THEN bar.value
    ELSE bar.current

\* the fraction with the computed ratio preferred to the reported one
BarFraction_ratio(bar) ==
    IF BarTotal(bar) # 0 /\ BarCompleted(bar) # None
    THEN Some(<<BarCompleted(bar)[1], BarTotal(bar)>>)
    ELSE bar.fraction

BarFraction(bar) ==
    IF bar.fraction # None THEN bar.fraction
    ELSE IF BarTotal(bar) # 0 /\ BarCompleted(bar) # None
         THEN Some(<<BarCompleted(bar)[1], BarTotal(bar)>>)
         ELSE None

\* round(): to the nearest integer, a tie to the even one; a / b with b > 0
RoundHalfEven(a, b) ==
    LET q == a \div b
        r == a % b
    IN  IF 2 * r < b THEN q
        ELSE IF 2 * r > b THEN q + 1
        ELSE IF q % 2 = 0 THEN q ELSE q + 1

\* int(round(float(fraction) * 100)) for the fraction num / den, den # 0
Round100(frac) ==
    IF frac[2] > 0 THEN RoundHalfEven(100 * frac[1], frac[2])
    ELSE RoundHalfEven(-100 * frac[1], -frac[2])

\* the percentage without the clamp
Percent_unclamped(frac) == Round100(frac)

Percent(frac) == Max(0, Min(100, Round100(frac)))

IsNaN(frac) == frac[2] = 0

\* What one call of the callback does: publish a percentage, return without
\* an update, or raise (int(round(nan)) is a ValueError).
callback(bars) ==
    LET bar == SelectBar(bars)
        fraction == IF bar = None THEN None ELSE BarFraction(bar[1])
    IN  IF bar = None \/ fraction = None THEN [kind |-> "return", percent |-> 0]
        ELSE IF IsNaN(fraction[1]) THEN [kind |-> "raise", percent |-> 0]
        ELSE [kind |-> "update", percent |-> Percent(fraction[1])]

\* The progress events the converter reports while the workers run: no bar
\* yet, a fraction above 1, and a bar whose index is still -1.
ProgressEvents ==
    { Bars(None, None, None),
      Bars(None, None, Some(Bar(Some(<<7, 5>>), None, None, None, None, None))),
      Bars(None, Some(Bar(None, Some(4), None, Some(-1), None, None)), None) }

\* The events of the single-job specification: also fractions inside
\* [0, 1], a tie, counts under each field name, a zero total and a NaN.
BarFractions == {<<1, 2>>, <<7, 5>>, <<-1, 4>>, <<1, 8>>, <<0, 0>>}
BarCounts == {None, Some(0), Some(3), Some(12)}

AllProgressEvents ==
    ProgressEvents
    \cup {Bars(Some(Bar(Some(f), Some(12), None, Some(3), None, None)), None, None) :
             f \in BarFractions}
    \cup {Bars(None, Some(Bar(None, total, None, Some(3), None, None)), None) :
             total \in BarCounts}
    \cup {Bars(None, None, Some(Bar(None, None, Some(12), None, value, None))) :
             value \in BarCounts}
    \cup {Bars(None, None, Some(Bar(None, Some(0), Some(4), None, None, current))) :
             current \in BarCounts}

\* ------------------------------------------------------------------ store
ConversionJob(id, total_files, temp_dir, unsupported_files, message) ==
    [id |-> id,
     status |-> "pending",
     total_files |-> total_files,
     converted |-> 0,
     processed_files |-> 0,
     errors |-> <<>>,
     message |-> message,
     download_path |-> None,
     temp_dir |-> Some(temp_dir),
     generated_files |-> <<>>,
     unsupported_files |-> unsupported_files,
     current_file |-> None,
     current_progress |-> 0]

\* jobs[job_id] = job
StoreJob(js, job) ==
    [i \in DOMAIN js \cup {job.id} |-> IF i = job.id THEN job ELSE js[i]]

\* an update that inserts the record it does not find
_update_job_insert(js, job_id, changes) ==
    [i \in DOMAIN js \cup {job_id} |->
        IF i = job_id
        THEN IF job_id \in DOMAIN js
             THEN [f \in DOMAIN js[job_id] |->
                     IF f \in DOMAIN changes THEN changes[f] ELSE js[job_id][f]]
             ELSE changes
        ELSE js[i]]

\* _update_job(job_id, **changes) on the registry js
_update_job(js, job_id, changes) ==
    IF job_id \notin DOMAIN js THEN js
    ELSE [js EXCEPT ![job_id] =
            [f \in DOMAIN js[job_id] |->
                IF f \in DOMAIN changes THEN changes[f] ELSE js[job_id][f]]]

\* jobs.pop(job_id, None)
PopJob(js, job_id) == [i \in DOMAIN js \ {job_id} |-> js[i]]

\* ------------------------------------------------------------------ state
VARIABLES
    jobs,     \* the registry: job id -> ConversionJob record
    worker,   \* the worker threads in creation order: the locals of _process_job
    disk,     \* the temporary directory of each /convert request
    req,      \* the /download requests and where each handler stands
    lock,     \* jobs_lock and the _update_job call that holds or last held it
    poll,     \* the payload a /status request has just returned
    event     \* the progress event the callback has just handled

vars == <<jobs, worker, disk, req, lock, poll, event>>

JobIds == 1..MaxJobs
Threads == 1..Len(worker)
Requests == 1..MaxDownloads

ReportName == <<Part("conversion_report", ".txt")>>
MoviepyRequired == "moviepy is required to convert videos. Install it with pip install moviepy."
NoAudioTrack == "has no audio track"
NaNToInteger == "cannot convert float NaN to integer"

IdleRequest == [pc |-> "idle", job_id |-> 0, temp_dir |-> 0, response |-> "none"]

FreeLock == [held |-> FALSE, job_id |-> 0, record |-> None, before |-> None, todo |-> {}]

Init ==
    /\ jobs = <<>>
    /\ worker = <<>>
    /\ disk = <<>>
    /\ req = [r \in Requests |-> IdleRequest]
    /\ lock = FreeLock
    /\ poll = None
    /\ event = None

\* ------------------------------------------------------------ POST /convert
\* uuid4() returns an identifier it has not returned before: the k-th
\* request gets the k-th identifier.
FreshId == Len(worker) + 1

convert(uploads, job_id) ==
    LET temp_dir == Len(worker) + 1
        saved_files == MapSanitize(uploads)
        supported_files == _filter_supported(saved_files)
        unsupported == sorted(SelectSeq(saved_files,
                                LAMBDA path : ~InSeq(path, supported_files)))
        job == ConversionJob(job_id, Len(supported_files), temp_dir,
                             unsupported, "Preparing conversion...")
    IN  /\ uploads # <<>>
        /\ \E i \in 1..Len(uploads) : uploads[i] # <<>>
        /\ saved_files # <<>>
        /\ supported_files # <<>>
        /\ jobs' = StoreJob(jobs, job)
        /\ disk' = Append(disk, [exists |-> TRUE, outputs |-> {}, zip |-> None])
        /\ worker' = Append(worker,
               [job_id |-> job_id, temp_dir |-> temp_dir,
                supported_files |-> supported_files,
                pc |-> "start", index |-> 0, errors |-> <<>>,
                generated |-> <<>>, success |-> FALSE,
                returning |-> FALSE, calls |-> 0])
        /\ UNCHANGED req

\* ------------------------------------------------------------ _process_job
RunningChanges ==
    [status |-> "running", message |-> "Converting videos...",
     errors |-> <<>>, current_progress |-> 0]

\* the start of a file resetting the count of processed files
StartFileChanges_zero(relative, index) ==
    [current_file |-> Some(relative), processed_files |-> 0,
     current_progress |-> 0]

StartFileChanges(relative, index) ==
    [current_file |-> Some(relative), processed_files |-> index - 1,
     current_progress |-> 0]

ProgressChanges(percent) == [current_progress |-> percent]

\* the fatal update leaving the count of processed files to the finally block
FatalChanges_nocount(errors, index, exc) ==
    [status |-> "failed", message |-> exc, errors |-> errors,
     current_file |-> None, current_progress |-> 0]

FatalChanges(errors, index, exc) ==
    [status |-> "failed", message |-> exc, errors |-> errors,
     processed_files |-> index, current_file |-> None, current_progress |-> 0]

ConvertedChanges(generated) == [converted |-> Len(generated)]

\* the finally block publishing an empty error list after a success
FinallyChanges_errors(errors, index, success) ==
    [errors |-> IF success THEN <<>> ELSE errors, processed_files |-> index,
     current_progress |-> IF success THEN 100 ELSE 0]

\* the finally block also resetting the status
FinallyChanges_status(errors, index, success) ==
    [status |-> "running", errors |-> errors, processed_files |-> index,
     current_progress |-> IF success THEN 100 ELSE 0]

\* the finally block publishing the count of the files before this one
FinallyChanges_before(errors, index, success) ==
    [errors |-> errors, processed_files |-> index - 1,
     current_progress |-> IF success THEN 100 ELSE 0]

FinallyChanges(errors, index, success) ==
    [errors |-> errors, processed_files |-> index,
     current_progress |-> IF success THEN 100 ELSE 0]

FailedChanges(errors) ==
    [status |-> "failed",
     message |-> IF errors # <<>> THEN "Conversion failed for all uploaded videos."
                 ELSE "No audio files were generated.",
     current_file |-> None, current_progress |-> 0]

ArcNames(generated) == [i \in 1..Len(generated) |-> generated[i][2]]

CompletedChanges(errors, zip_path, generated) ==
    [status |-> "completed",
     message |-> IF errors # <<>> THEN "Conversion completed with some errors."
                 ELSE "Conversion completed!",
     download_path |-> Some(zip_path),
     generated_files |-> ArcNames(generated),
     current_file |-> None, current_progress |-> 100]

\* the archive with the report written whether or not a file failed
ZipFile_report(errors, generated) ==
    [names |-> ArcNames(generated) \o <<ReportName>>,
     report |-> Some(errors)]

\* the archive written at lines 268-273
ZipFile(errors, generated) ==
    [names |-> ArcNames(generated) \o (IF errors # <<>> THEN <<ReportName>> ELSE <<>>),
     report |-> IF errors # <<>> THEN Some(errors) ELSE None]

\* failing the job as soon as one file failed
NothingGenerated_errors(generated, errors) == generated = <<>> \/ errors # <<>>

\* `if not generated`
NothingGenerated(generated, errors) == generated = <<>>

\* a worker that ends after the last file without the post-loop update
AfterFinally_nopost(returning, index, n) ==
    IF returning THEN "done" ELSE IF index < n THEN "file" ELSE "done"

\* the fatal branch without its return
AfterFinally_noreturn(returning, index, n) ==
    IF index < n THEN "file" ELSE "post"

\* where the worker goes after the finally block of file `index` of n
AfterFinally(returning, index, n) ==
    IF returning THEN "done" ELSE IF index < n THEN "file" ELSE "post"

Relative(w) == w.supported_files[w.index]

\* lines 196-205: the first store update
WorkerStart(k) ==
    /\ worker[k].pc = "start"
    /\ jobs' = _update_job(jobs, worker[k].job_id, RunningChanges)
    /\ worker' = [worker EXCEPT ![k].pc = "file", ![k].index = 1]
    /\ UNCHANGED <<disk, req>>

\* lines 207-223: publish the current file, then call the converter
StartFile(k) ==
    /\ worker[k].pc = "file"
    /\ jobs' = _update_job(jobs, worker[k].job_id,
                           StartFileChanges(Relative(worker[k]), worker[k].index))
    /\ worker' = [worker EXCEPT ![k].pc = "convert", ![k].success = FALSE,
                                ![k].calls = @ + 1]
    /\ UNCHANGED <<disk, req>>

\* lines 236-237: the converter raised a recoverable error
RaiseError(k, exc) ==
    /\ worker' = [worker EXCEPT ![k].pc = "finally",
                     ![k].errors = Append(@, [file |-> Some(Relative(worker[k])),
                                              exc |-> exc])]
    /\ UNCHANGED <<jobs, disk, req>>

\* the converter reports progress: JobProgressLogger.callback, lines 85-113
Progress(k, bars) ==
    /\ worker[k].pc = "convert"
    /\ LET result == callback(bars)
       IN  IF result.kind = "raise" THEN RaiseError(k, NaNToInteger)
           ELSE /\ jobs' = IF result.kind = "update"
                           THEN _update_job(jobs, worker[k].job_id,
                                            ProgressChanges(result.percent))
                           ELSE jobs
                /\ UNCHANGED <<worker, disk, req>>

\* lines 238-241: the converter returned the audio file
ConvertSucceeds(k) ==
    /\ worker[k].pc = "convert"
    /\ LET audio_relative == with_suffix(Relative(worker[k]), ".mp3")
           generated == Append(worker[k].generated,
                               <<audio_relative, audio_relative>>)
       IN  /\ disk' = [disk EXCEPT ![worker[k].temp_dir].outputs =
                                        @ \cup {audio_relative}]
           /\ jobs' = _update_job(jobs, worker[k].job_id, ConvertedChanges(generated))
           /\ worker' = [worker EXCEPT ![k].pc = "finally",
                            ![k].generated = generated, ![k].success = TRUE]
    /\ UNCHANGED req

\* lines 236-237: the source has no audio track, or any other conversion error
ConvertFails(k) ==
    /\ worker[k].pc = "convert"
    /\ RaiseError(k, NoAudioTrack)

\* lines 224-235: ModuleNotFoundError, the fatal error
ConvertFatal(k) ==
    /\ worker[k].pc = "convert"
    /\ LET errors == Append(worker[k].errors, [file |-> None, exc |-> MoviepyRequired])
       IN  /\ jobs' = _update_job(jobs, worker[k].job_id,
                          FatalChanges(errors, worker[k].index, MoviepyRequired))
           /\ worker' = [worker EXCEPT ![k].pc = "finally", ![k].errors = errors,
                                       ![k].returning = TRUE]
    /\ UNCHANGED <<disk, req>>

\* lines 242-248: the finally block, also run on the way out of the fatal return
Finally(k) ==
    /\ worker[k].pc = "finally"
    /\ jobs' = _update_job(jobs, worker[k].job_id,
                   FinallyChanges(worker[k].errors, worker[k].index, worker[k].success))
    /\ LET next == AfterFinally(worker[k].returning, worker[k].index,
                                Len(worker[k].supported_files))
       IN  worker' = [worker EXCEPT ![k].pc = next,
                         ![k].index = IF next = "file" THEN @ + 1 ELSE @]
    /\ UNCHANGED <<disk, req>>

\* lines 250-287: after the loop
PostLoop(k) ==
    /\ worker[k].pc = "post"
    /\ IF NothingGenerated(worker[k].generated, worker[k].errors)
       THEN /\ jobs' = _update_job(jobs, worker[k].job_id,
                                   FailedChanges(worker[k].errors))
            /\ UNCHANGED disk
       ELSE /\ disk' = [disk EXCEPT ![worker[k].temp_dir].zip =
                           IF disk[worker[k].temp_dir].exists
                           THEN Some(ZipFile(worker[k].errors, worker[k].generated))
                           ELSE @]
            /\ jobs' = _update_job(jobs, worker[k].job_id,
                           CompletedChanges(worker[k].errors, worker[k].temp_dir,
                                            worker[k].generated))
    /\ worker' = [worker EXCEPT ![k].pc = "done"]
    /\ UNCHANGED req

\* ------------------------------------------------------ GET /download/<id>
\* the check without the status test
DownloadAllowed_anystatus(js, job_id) == job_id \in DOMAIN js

\* line 318: the request passes the check
DownloadAllowed(js, job_id) ==
    /\ job_id \in DOMAIN js
    /\ js[job_id].status = "completed"
    /\ js[job_id].download_path # None

\* lines 316-321: look the job up under the lock, abort(404) or keep its paths
DownloadCheck(r, job_id) ==
    /\ req[r].pc = "idle"
    /\ req' = [req EXCEPT ![r] =
          IF DownloadAllowed(jobs, job_id)
          THEN [pc |-> "send", job_id |-> job_id,
                temp_dir |-> jobs[job_id].temp_dir[1], response |-> "none"]
          ELSE [pc |-> "done", job_id |-> job_id, temp_dir |-> 0,
                response |-> "notfound"]]
    /\ UNCHANGED <<jobs, worker, disk>>

\* lines 331-336: send_file opens the archive; a missing file is a server error
DownloadSend(r) ==
    /\ req[r].pc = "send"
    /\ req' = [req EXCEPT ![r].pc = "cleanup",
                  ![r].response = IF /\ disk[req[r].temp_dir].exists
                                     /\ disk[req[r].temp_dir].zip # None
                                  THEN "served" ELSE "error"]
    /\ UNCHANGED <<jobs, worker, disk>>

\* lines 323-329: _cleanup, run after the request
DownloadCleanup(r) ==
    /\ req[r].pc = "cleanup"
    /\ jobs' = PopJob(jobs, req[r].job_id)
    /\ disk' = [disk EXCEPT ![req[r].temp_dir] =
                   [exists |-> FALSE, outputs |-> {}, zip |-> None]]
    /\ req' = [req EXCEPT ![r].pc = "done"]
    /\ UNCHANGED worker

\* ---------------------------------------------------------- specification
WorkerStep(k) ==
    \/ WorkerStart(k)
    \/ StartFile(k)
    \/ ConvertSucceeds(k)
    \/ ConvertFails(k)
    \/ ConvertFatal(k)
    \/ Finally(k)
    \/ PostLoop(k)

DownloadStep(r) ==
    \/ \E job_id \in JobIds : DownloadCheck(r, job_id)
    \/ DownloadSend(r)
    \/ DownloadCleanup(r)

\* Every update is one step here: the lock is free between the steps, and
\* no poll payload and no progress event is kept.
Unobserved == UNCHANGED <<lock, poll, event>>

Next ==
    \/ /\ Len(worker) < MaxJobs
       /\ \E uploads \in Uploads : convert(uploads, FreshId)
       /\ Unobserved
    \/ \E k \in Threads : WorkerStep(k) /\ Unobserved
    \/ \E k \in Threads : \E bars \in ProgressEvents : Progress(k, bars) /\ Unobserved
    \/ \E r \in Requests : DownloadStep(r) /\ Unobserved

Spec == Init /\ [][Next]_vars

\* One job and its worker under every progress event of AllProgressEvents.
\* `event` keeps the event of the callback that has just run, with the
\* percentage published before it.
Handled(k, bars) ==
    Some([thread |-> k, bars |-> bars,
          before |-> jobs[worker[k].job_id].current_progress])

\* A step of the worker's own code, which forgets the last event.
WorkerMove(k) == WorkerStep(k) /\ event' = None /\ UNCHANGED <<lock, poll>>

NextProgress ==
    \/ /\ worker = <<>>
       /\ \E uploads \in Uploads : convert(uploads, FreshId)
       /\ Unobserved
    \/ \E k \in Threads : WorkerMove(k)
    \/ \E k \in Threads : \E bars \in AllProgressEvents :
          Progress(k, bars) /\ event' = Handled(k, bars) /\ UNCHANGED <<lock, poll>>

SpecProgress == Init /\ [][NextProgress]_vars

\* uuid4() taken as an arbitrary identifier of JobIds, with one request more
\* than there are identifiers: a request draws an id that is already in the
\* registry.
NextAnyId ==
    \/ /\ Len(worker) < MaxJobs + 1
       /\ \E uploads \in Uploads : \E job_id \in JobIds : convert(uploads, job_id)
       /\ Unobserved
    \/ \E k \in Threads : WorkerStep(k) /\ Unobserved
    \/ \E k \in Threads : \E bars \in ProgressEvents : Progress(k, bars) /\ Unobserved

SpecAnyId == Init /\ [][NextAnyId]_vars

\* Fresh identifiers and one job more than MaxJobs, each with its worker
\* and one of the shorter uploads: the registry holds several records at
\* once.
StoreUploads == {uploads \in Uploads : Len(uploads) < MaxUploads}

NextStore ==
    \/ /\ Len(worker) < MaxJobs + 1
       /\ \E uploads \in StoreUploads : convert(uploads, FreshId)
       /\ Unobserved
    \/ \E k \in Threads : WorkerStep(k) /\ Unobserved

SpecStore == Init /\ [][NextStore]_vars

\* One job and its worker under a fair scheduler: a worker thread that can
\* take a step of _process_job eventually takes one, so a converter call
\* returns or raises after finitely many progress events.
WorkerFairness ==
    \A k \in 1..MaxJobs : WF_vars(k \in Threads /\ WorkerMove(k))

SpecLive == Init /\ [][NextProgress]_vars /\ WorkerFairness

\* ---------------------------------------------------- updates under jobs_lock
\* One _update_job call taken apart: the lock is taken, setattr runs once
\* for each change, the lock is released. `jobs` holds the registry as the
\* calls made so far define it, the call in flight included; lock.record
\* is the object as the setattr calls have left it so far, which is what a
\* reader of the object would see. lock.before is the record as it was when
\* the last call began.
UpdatedFields(old, new) == {f \in DOMAIN old : old[f] # new[f]}

Flight(job_id, old, new) ==
    [held |-> TRUE, job_id |-> job_id, record |-> Some(old), before |-> Some(old),
     todo |-> UpdatedFields(old, new)]

\* the worker's next step, its _update_job call begun under the lock
UpdateCall(k) ==
    /\ ~lock.held
    /\ \/ WorkerStep(k)
       \/ \E bars \in ProgressEvents : Progress(k, bars)
    /\ lock' = IF worker[k].job_id \in DOMAIN jobs
               THEN Flight(worker[k].job_id, jobs[worker[k].job_id],
                           jobs'[worker[k].job_id])
               ELSE FreeLock
    /\ poll' = None
    /\ UNCHANGED event

\* setattr(job, key, value) for one of the changes
Setattr(key) ==
    /\ lock.held
    /\ key \in lock.todo
    /\ lock' = [lock EXCEPT !.record = Some([@[1] EXCEPT ![key] = jobs[lock.job_id][key]]),
                            !.todo = @ \ {key}]
    /\ poll' = None
    /\ UNCHANGED <<jobs, worker, disk, req, event>>

\* the end of the with block of _update_job
Release ==
    /\ lock.held
    /\ lock.todo = {}
    /\ lock' = [lock EXCEPT !.held = FALSE]
    /\ poll' = None
    /\ UNCHANGED <<jobs, worker, disk, req, event>>

\* the attributes of the job object as a reader finds them
Memory(job_id) ==
    IF lock.job_id = job_id /\ lock.record # None THEN lock.record[1]
    ELSE jobs[job_id]

\* the payload of /status
StatusPayload(job) ==
    [job_id |-> job.id, status |-> job.status, message |-> job.message,
     total_files |-> job.total_files, converted |-> job.converted,
     processed_files |-> job.processed_files, errors |-> job.errors,
     generated_files |-> job.generated_files,
     unsupported_files |-> job.unsupported_files,
     current_file |-> job.current_file,
     current_progress |-> job.current_progress,
     download_url |-> IF job.status = "completed" /\ job.download_path # None
                      THEN Some(job.id) ELSE None]

\* a reader that does not take the lock
PollAllowed_nolock(l) == TRUE

\* with jobs_lock: the reader waits while an update holds the lock
PollAllowed(l) == ~l.held

\* GET /status/<job_id> for a registered job; `poll` keeps the payload
\* with the payloads of the record before and after the last update call.
StatusPoll(job_id) ==
    /\ PollAllowed(lock)
    /\ job_id \in DOMAIN jobs
    /\ poll' = Some([payload |-> StatusPayload(Memory(job_id)),
                     before |-> StatusPayload(IF lock.job_id = job_id /\ lock.before # None
                                              THEN lock.before[1] ELSE jobs[job_id]),
                     after |-> StatusPayload(jobs[job_id])])
    /\ UNCHANGED <<jobs, worker, disk, req, lock, event>>

LockFields ==
    {"status", "message", "converted", "processed_files", "errors",
     "download_path", "generated_files", "current_file", "current_progress"}

NextLock ==
    \/ /\ worker = <<>>
       /\ \E uploads \in Uploads : convert(uploads, FreshId)
       /\ Unobserved
    \/ \E k \in Threads : UpdateCall(k)
    \/ \E key \in LockFields : Setattr(key)
    \/ Release
    \/ \E job_id \in JobIds : StatusPoll(job_id)

SpecLock == Init /\ [][NextLock]_vars

\* ------------------------------------------------------------------ claims
Present(k) == worker[k].job_id \in DOMAIN jobs
JobOf(k) == jobs[worker[k].job_id]
Terminal(job) == job.status \in {"completed", "failed"}

StatusSteps ==
    {<<"pending", "running">>, <<"running", "completed">>, <<"running", "failed">>}

\* C1: a job's status is pending when the record is created and until the
\* worker's first store update, and every later change of it is one of
\* pending -> running, running -> completed, running -> failed; a completed
\* or failed status is never changed.
C1_StatusMachine ==
    /\ [](\A k \in Threads :
            Present(k) => (JobOf(k).status = "pending" <=> worker[k].pc = "start"))
    /\ [][ /\ \A id \in DOMAIN jobs' \ DOMAIN jobs : jobs'[id].status = "pending"
           /\ \A id \in DOMAIN jobs \cap DOMAIN jobs' :
                \/ jobs'[id].status = jobs[id].status
                \/ <<jobs[id].status, jobs'[id].status>> \in StatusSteps ]_vars

\* a job failed by the fatal error whose worker has run its last update
C1_Witness ==
    \E k \in Threads :
        /\ worker[k].pc = "done" /\ worker[k].returning
        /\ Present(k) /\ JobOf(k).status = "failed"

\* C2: in every state of a job record, processed_files <= total_files and
\* converted <= processed_files.
C2_CountersOrdered ==
    \A id \in DOMAIN jobs :
        /\ jobs[id].processed_files <= jobs[id].total_files
        /\ jobs[id].converted <= jobs[id].processed_files

\* C3: when the worker has finished the loop over all files without a fatal
\* error, the status is completed if and only if converted >= 1 and failed
\* otherwise.
C3_CompletedIffConverted ==
    \A k \in Threads :
        (worker[k].pc = "done" /\ ~worker[k].returning /\ Present(k)) =>
            /\ JobOf(k).status = "completed" <=> JobOf(k).converted >= 1
            /\ JobOf(k).status = "failed" <=> JobOf(k).converted = 0

\* a job completed although one of its files failed
C3_Witness ==
    \E k \in Threads :
        /\ worker[k].pc = "done" /\ ~worker[k].returning /\ Present(k)
        /\ JobOf(k).status = "completed"
        /\ JobOf(k).errors # <<>>

ServedFor(id) == {r \in Requests : req[r].job_id = id /\ req[r].response = "served"}

\* C4: of the download requests for one job id at most one is served the
\* archive, and every other one is answered not-found.
C4_SingleShot ==
    /\ \A id \in JobIds : Cardinality(ServedFor(id)) <= 1
    /\ \A r \in Requests : req[r].response \in {"none", "served", "notfound"}

\* C5: a download request is answered not-found whenever its job id is
\* absent from the registry or the job is not completed; only a request for
\* a completed job goes on to be served, and only the record of a completed
\* job is removed.
C5_DownloadOnlyCompleted ==
    [][ /\ \A r \in Requests :
             (req[r].pc = "idle" /\ req'[r].pc # "idle") =>
                IF /\ req'[r].job_id \in DOMAIN jobs
                   /\ jobs[req'[r].job_id].status = "completed"
                THEN req'[r].pc = "send"
                ELSE req'[r].pc = "done" /\ req'[r].response = "notfound"
        /\ \A r \in Requests :
             (req'[r].response = "served" /\ req[r].response # "served") =>
                req[r].pc = "send"
        /\ \A id \in DOMAIN jobs \ DOMAIN jobs' : jobs[id].status = "completed"
      ]_vars

\* one request for a job refused, another request for the same job served
C5_Witness ==
    \E r1, r2 \in Requests :
        /\ req[r1].response = "notfound"
        /\ req[r2].response = "served"
        /\ req[r1].job_id = req[r2].job_id

\* C6: once the converter has raised the fatal error on file i, the error
\* is recorded, the status is failed, the converter has been called i times
\* and is not called again, and no archive is produced.
C6_FatalAborts ==
    \A k \in Threads :
        worker[k].returning =>
            /\ worker[k].pc \in {"finally", "done"}
            /\ worker[k].calls = worker[k].index
            /\ disk[worker[k].temp_dir].zip = None
            /\ Present(k) =>
                 /\ JobOf(k).status = "failed"
                 /\ JobOf(k).download_path = None
                 /\ JobOf(k).processed_files = worker[k].index
                 /\ JobOf(k).errors # <<>>
                 /\ JobOf(k).errors[Len(JobOf(k).errors)].exc = MoviepyRequired

\* a job ended by the fatal error with files left unprocessed
C6_Witness ==
    \E k \in Threads :
        /\ worker[k].pc = "done" /\ worker[k].returning /\ Present(k)
        /\ JobOf(k).processed_files < JobOf(k).total_files

\* C7: a job that reaches a terminal state without a fatal error has
\* processed_files = total_files and 0 <= converted <= total_files.
C7_AllProcessed ==
    \A k \in Threads :
        (worker[k].pc = "done" /\ ~worker[k].returning /\ Present(k)) =>
            /\ Terminal(JobOf(k))
            /\ JobOf(k).processed_files = JobOf(k).total_files
            /\ JobOf(k).total_files = Len(worker[k].supported_files)
            /\ JobOf(k).converted \in 0..JobOf(k).total_files

\* a finished job of two files of which exactly one was converted
C7_Witness ==
    \E k \in Threads :
        /\ worker[k].pc = "done" /\ ~worker[k].returning /\ Present(k)
        /\ JobOf(k).total_files = 2
        /\ JobOf(k).converted = 1

\* C8: current_progress is an integer in [0,100] in every state of every job.
C8_ProgressInRange ==
    \A id \in DOMAIN jobs : jobs[id].current_progress \in 0..100

\* a percentage of 100 published by a progress event while the file is converted
C8_Witness ==
    \E k \in Threads :
        /\ worker[k].pc = "convert" /\ Present(k)
        /\ JobOf(k).current_progress = 100

\* C9: while one file is being converted, current_progress never decreases.
C9_ProgressMonotonic ==
    [][ \A k \in Threads :
          (/\ worker[k].pc = "convert" /\ worker'[k].pc = "convert"
           /\ Present(k) /\ worker[k].job_id \in DOMAIN jobs') =>
             jobs'[worker[k].job_id].current_progress >= JobOf(k).current_progress
      ]_vars

UpdateIds == 0..(MaxJobs + 2)
UpdateCalls ==
    { RunningChanges,
      StartFileChanges(<<Part("a", ".mp4")>>, 1),
      ProgressChanges(50),
      ConvertedChanges(<<1>>),
      FinallyChanges(<<>>, 1, TRUE),
      FailedChanges(<<>>),
      CompletedChanges(<<>>, 1, <<>>) }

\* C11: an update of an id that is not in the registry leaves the registry
\* as it is; an update of an id that is present keeps the set of records and
\* every other record, and on its record changes the named fields to the
\* given values and no other field.
C11_UpdateFrame ==
    \A id \in UpdateIds : \A changes \in UpdateCalls :
        LET js == _update_job(jobs, id, changes)
        IN  IF id \notin DOMAIN jobs THEN js = jobs
            ELSE /\ DOMAIN js = DOMAIN jobs
                 /\ \A other \in DOMAIN jobs \ {id} : js[other] = jobs[other]
                 /\ DOMAIN js[id] = DOMAIN jobs[id]
                 /\ \A f \in DOMAIN jobs[id] \ DOMAIN changes : js[id][f] = jobs[id][f]
                 /\ \A f \in DOMAIN changes : js[id][f] = changes[f]

\* two records in the registry, one of them updated by its worker, and an
\* id of UpdateIds that is in use no more than the others are
C11_Witness ==
    /\ Cardinality(DOMAIN jobs) >= 2
    /\ \E id \in DOMAIN jobs : jobs[id].status = "running"
    /\ \E id \in DOMAIN jobs : jobs[id].status = "pending"
    /\ \E id \in UpdateIds : id \notin DOMAIN jobs

Archive(k) == disk[worker[k].temp_dir].zip
Completed(k) == Present(k) /\ JobOf(k).status = "completed"

\* C13: when a job is completed, every name of generated_files is the name
\* of an entry of the archive, and the archive has the entry
\* conversion_report.txt if and only if the job's errors list is not empty.
C13_ArchiveRoundTrip ==
    \A k \in Threads :
        Completed(k) =>
            /\ Archive(k) # None
            /\ \A i \in 1..Len(JobOf(k).generated_files) :
                 InSeq(JobOf(k).generated_files[i], Archive(k)[1].names)
            /\ InSeq(ReportName, Archive(k)[1].names) <=> JobOf(k).errors # <<>>

\* a completed job with a failed file, its archive holding the report
C13_Witness ==
    \E k \in Threads :
        /\ Completed(k)
        /\ JobOf(k).errors # <<>>
        /\ Archive(k) # None
        /\ InSeq(ReportName, Archive(k)[1].names)
        /\ JobOf(k).generated_files # <<>>

MediaNames(zip) == {zip.names[i] : i \in 1..Len(zip.names)} \ {ReportName}

\* C14: the archive of a completed job has as many distinct media entry
\* names as the job has converted files.
C14_OneEntryPerFile ==
    \A k \in Threads :
        (Completed(k) /\ Archive(k) # None) =>
            Cardinality(MediaNames(Archive(k)[1])) = JobOf(k).converted

IsPrefix(s, t) == Len(s) <= Len(t) /\ SubSeq(t, 1, Len(s)) = s

\* C15: every update leaves the errors list of a job with its previous
\* value as a prefix.
C15_ErrorsAppendOnly ==
    [][ \A id \in DOMAIN jobs \cap DOMAIN jobs' :
          IsPrefix(jobs[id].errors, jobs'[id].errors) ]_vars

\* a job with two errors published one after the other
C15_Witness ==
    \E id \in DOMAIN jobs : Len(jobs[id].errors) = 2

\* C16: current_file is unset whenever the worker is not processing a file:
\* before a file starts, after the last file and when the worker has ended.
C16_CurrentFileCleared ==
    \A k \in Threads :
        (Present(k) /\ worker[k].pc \in {"file", "post", "done"}) =>
            JobOf(k).current_file = None

\* C18: a record whose status is completed or failed is not changed by any
\* later step that keeps it in the registry.
C18_TerminalFrozen ==
    [][ \A id \in DOMAIN jobs \cap DOMAIN jobs' :
          Terminal(jobs[id]) => jobs'[id] = jobs[id] ]_vars

\* the finally block has run after the update of the fatal error
C18_Witness ==
    \E k \in Threads :
        /\ worker[k].pc = "done" /\ worker[k].returning /\ Present(k)
        /\ JobOf(k).errors = worker[k].errors
        /\ JobOf(k).processed_files = worker[k].index
        /\ JobOf(k).current_progress = 0

\* C20: no step lowers processed_files or converted of a job.
C20_CountersMonotonic ==
    [][ \A id \in DOMAIN jobs \cap DOMAIN jobs' :
          /\ jobs'[id].processed_files >= jobs[id].processed_files
          /\ jobs'[id].converted >= jobs[id].converted ]_vars

\* the second file has started: its update published processed_files = 1
C20_Witness ==
    \E k \in Threads :
        /\ worker[k].pc = "convert" /\ worker[k].index = 2 /\ Present(k)
        /\ JobOf(k).processed_files = 1

\* C17: every job that is created eventually has the status completed or
\* failed, under a fair scheduling of its worker.
C17_EventuallyTerminal ==
    \A id \in 1..MaxJobs :
        (id \in DOMAIN jobs) ~> (id \in DOMAIN jobs /\ Terminal(jobs[id]))

\* a worker that has ended and left its job completed or failed
C17_Witness ==
    \E k \in Threads :
        /\ worker[k].pc = "done" /\ Present(k)
        /\ Terminal(JobOf(k))
        /\ JobOf(k).message # "Converting videos..."

\* The integer nearest to 100 * num / den for den > 0, a tie going to
\* the even neighbour.
Nearest100(num, den) ==
    LET dist(p) == IF 100 * num >= p * den THEN 100 * num - p * den
                   ELSE p * den - 100 * num
    IN  CHOOSE p \in -400..400 :
            /\ 2 * dist(p) <= den
            /\ (2 * dist(p) = den => p % 2 = 0)

\* C19: for every progress event whose fraction is a number, the normalizer
\* publishes clamp(round(100 * f), 0, 100), where f is the direct fraction
\* of the event when it has one and completed / total otherwise; an event
\* from which no fraction can be derived raises nothing and leaves the
\* published percentage as it was.
C19_NormalizerFormula ==
    event # None =>
        LET e == event[1]
            w == worker[e.thread]
            now == jobs[w.job_id].current_progress
            bar == SelectBar(e.bars)
            f == IF bar = None THEN None
                 ELSE IF bar[1].fraction # None THEN bar[1].fraction
                 ELSE IF BarCompleted(bar[1]) # None /\ BarTotal(bar[1]) # 0
                      THEN Some(<<BarCompleted(bar[1])[1], BarTotal(bar[1])>>)
                      ELSE None
        IN  IF f = None THEN w.pc = "convert" /\ now = e.before
            ELSE f[1][2] > 0 =>
                    /\ w.pc = "convert"
                    /\ now = Max(0, Min(100, Nearest100(f[1][1], f[1][2])))

\* 3 of 12 has just been reported and 25 is published.
C19_Witness ==
    /\ event # None
    /\ event[1].bars =
           Bars(None, Some(Bar(None, Some(12), None, Some(3), None, None)), None)
    /\ event[1].before # 25
    /\ jobs[worker[event[1].thread].job_id].current_progress = 25

\* C12: every status poll returns the record as it was before the last
\* update call or as that call leaves it, never a record with only some of
\* the call's fields assigned.
C12_SnapshotAtomic ==
    poll # None => poll[1].payload \in {poll[1].before, poll[1].after}

\* A poll after the completion update returns all of its fields.
C12_Witness ==
    /\ poll # None
    /\ poll[1].before # poll[1].after
    /\ poll[1].before.status = "running"
    /\ poll[1].payload = poll[1].after
    /\ poll[1].payload.status = "completed"
    /\ poll[1].payload.download_url # None
    /\ poll[1].payload.current_file = None

====
